---------------------------- MODULE Spec2Model ----------------------------
(***************************************************************************)
(* Model of the two artifact.Service backends of adk-artifact:             *)
(*   fsartifact.fsService  (src/fsartifact/service.go, lines 1..274)       *)
(*   s3artifact.s3Service  (src/s3artifact/service.go)                     *)
(*                                                                         *)
(* Strings are sequences of one-character strings, so that prefix tests,   *)
(* strings.Split, decimal formatting/parsing and byte-wise ordering are    *)
(* computed the way the Go code computes them.  Names are drawn from       *)
(* separator-free identifiers (spec 4.1: callers supply storage-safe       *)
(* identifiers), for which filepath.Join is concatenation with "/", which  *)
(* is Slash here.                                                          *)
(***************************************************************************)
EXTENDS Integers, Sequences, FiniteSets, TLC

VARIABLES backend, scope, fsDirs, fsFiles, s3Objects, last, run

\* what the other specifications of this module add to the state:
\*   loc    two request tuples and the locations built for them
\*   first  the payload of the first Save of the behaviour (a history)
\*   peer   the response of the object-store backend when both backends
\*          are driven with the same requests
\*   procs  the concurrent callers: each one's operation, position and locals
\*   fan    the deletions spawned by one s3Service.Delete with version 0
\*   job    one Save or Load whose calls to the storage may fail: its
\*          position, its locals, the streams it has open
VARIABLES loc, first, peer, procs, fan, job

aux == <<loc, first, peer, procs, fan, job>>

vars == <<backend, scope, fsDirs, fsFiles, s3Objects, last, run, loc, first, peer, procs, fan, job>>

-----------------------------------------------------------------------------
(* Bounds of the model.                                                    *)

\* highest version number a Save may produce or a request may name
MaxVersion == 10
\* highest number of payloads stored at one time
MaxObjects == 2
\* version numbers above WideVersions are used for one identity only
WideVersions == 1

-----------------------------------------------------------------------------
(* Strings and bytes.                                                      *)

Digits == <<"0", "1", "2", "3", "4", "5", "6", "7", "8", "9">>

\* the characters that occur in the model, in ascending byte (ASCII) order
Alphabet == <<".", "/", "0", "1", "2", "3", "4", "5", "6", "7", "8", "9", ":",
              "a", "e", "f", "g", "h", "i", "l", "m", "n", "p", "r", "s", "t",
              "u", "w", "x">>

byteTable == [c \in {Alphabet[i] : i \in 1..Len(Alphabet)} |->
                 CHOOSE i \in 1..Len(Alphabet) : Alphabet[i] = c]

ByteOf(c) == byteTable[c]

\* Go's string comparison a < b (byte-wise lexicographic), as used by
\* sort.Strings and by the ordering of directory entries and object keys
StrLess(a, b) ==
    \E i \in 1..(Len(b)) :
        /\ \A j \in 1..(i - 1) : j <= Len(a) /\ a[j] = b[j]
        /\ \/ i = Len(a) + 1
           \/ i <= Len(a) /\ ByteOf(a[i]) < ByteOf(b[i])

HasPrefix(s, p) == Len(s) >= Len(p) /\ SubSeq(s, 1, Len(p)) = p

HasSuffix(s, p) == Len(s) >= Len(p) /\ SubSeq(s, Len(s) - Len(p) + 1, Len(s)) = p

RECURSIVE SplitFrom(_, _, _)
SplitFrom(s, i, cur) ==
    IF i > Len(s) THEN <<cur>>
    ELSE IF s[i] = "/" THEN <<cur>> \o SplitFrom(s, i + 1, <<>>)
    ELSE SplitFrom(s, i + 1, Append(cur, s[i]))

\* strings.Split(s, "/")
Split(s) == SplitFrom(s, 1, <<>>)

RECURSIVE FormatInt(_)
\* fmt.Sprintf("%d", v) for v >= 0
FormatInt(v) ==
    IF v < 10 THEN <<Digits[v + 1]>>
    ELSE Append(FormatInt(v \div 10), Digits[(v % 10) + 1])

IsDigit(c) == \E i \in 1..10 : Digits[i] = c

DigitVal(c) == (CHOOSE i \in 1..10 : Digits[i] = c) - 1

RECURSIVE ParseDigits(_, _)
ParseDigits(s, acc) ==
    IF s = <<>> THEN acc
    ELSE ParseDigits(Tail(s), 10 * acc + DigitVal(Head(s)))

\* strconv.ParseInt(s, 10, 64): err is TRUE for the empty string and for a
\* string with a character that is no decimal digit
ParseInt(s) ==
    IF s # <<>> /\ \A i \in 1..Len(s) : IsDigit(s[i])
    THEN [err |-> FALSE, v |-> ParseDigits(s, 0)]
    ELSE [err |-> TRUE, v |-> 0]

RECURSIVE SortStrings(_)
\* the strings of the finite set S in ascending byte-wise order
\* (sort.Strings; also the order of os.ReadDir entries and of listed keys)
SortStrings(S) ==
    IF S = {} THEN <<>>
    ELSE LET m == CHOOSE x \in S : \A y \in S \ {x} : StrLess(x, y)
         IN  <<m>> \o SortStrings(S \ {m})

RECURSIVE InsertInt(_, _)
InsertInt(sorted, v) ==
    IF sorted = <<>> THEN <<v>>
    ELSE IF v < Head(sorted) THEN <<v>> \o sorted
    ELSE <<Head(sorted)>> \o InsertInt(Tail(sorted), v)

RECURSIVE SortInts(_)
\* sort.Slice(versions, func(i, j) bool { return versions[i] < versions[j] })
SortInts(s) == IF s = <<>> THEN <<>> ELSE InsertInt(SortInts(Tail(s)), Head(s))

RECURSIVE MaxOf(_)
\* slices.Max of a non-empty sequence
MaxOf(s) ==
    IF Len(s) = 1 THEN s[1]
    ELSE LET m == MaxOf(Tail(s)) IN IF s[1] > m THEN s[1] ELSE m

Range(s) == {s[i] : i \in 1..Len(s)}

-----------------------------------------------------------------------------
(* The names the requests are drawn from.                                  *)

AppNames == {<<"a">>}
UserIDs == {<<"u">>}
SessionIDs == {<<"s">>, <<"t">>, <<"u", "s", "e", "r">>}
FileNames == {<<"f">>, <<"u", "s", "e", "r", ":", "f">>}

textPlain == <<"t", "e", "x", "t", "/", "p", "l", "a", "i", "n">>

NoBlob == [present |-> FALSE, Data |-> <<>>, MIMEType |-> <<>>]

\* genai.Part values: a text part and an inline-data part
Parts ==
    { [InlineData |-> NoBlob, Text |-> <<"h">>],
      [InlineData |-> [present |-> TRUE, Data |-> <<"w">>, MIMEType |-> <<"i", "m", "g">>],
       Text |-> <<>>] }

NoPart == [InlineData |-> NoBlob, Text |-> <<>>]

-----------------------------------------------------------------------------
(* Requests and responses.                                                 *)

Req(app, user, session, file, version, part) ==
    [AppName |-> app, UserID |-> user, SessionID |-> session, FileName |-> file,
     Version |-> version, Part |-> part]

\* err: "nil", "notfound" (wraps fs.ErrNotExist), "io", "invalid"
Resp(err, version, versions, names, data, mime) ==
    [err |-> err, Version |-> version, Versions |-> versions, FileNames |-> names,
     Data |-> data, MIMEType |-> mime]

ErrResp(err) == Resp(err, 0, <<>>, <<>>, <<>>, <<>>)

\* req.Validate() of google.golang.org/adk/artifact: field presence
ValidateId(req) ==
    /\ req.AppName # <<>>
    /\ req.UserID # <<>>
    /\ req.SessionID # <<>>
    /\ req.FileName # <<>>

ValidateSave(req) ==
    /\ ValidateId(req)
    /\ (req.Part.InlineData.present \/ req.Part.Text # <<>>)

ValidateList(req) ==
    /\ req.AppName # <<>>
    /\ req.UserID # <<>>
    /\ req.SessionID # <<>>

-----------------------------------------------------------------------------
(* The local file system: the directories fs.dirs and the regular files    *)
(* fs.files (path -> content).                                             *)

Slash == <<"/">>

rootDir == <<"r">>

metaSuffix == <<".", "m", "e", "t", "a">>

\* the index of the last separator of a path with at least two segments
LastSlash(p) ==
    CHOOSE k \in 1..Len(p) : p[k] = "/" /\ \A j \in (k + 1)..Len(p) : p[j] # "/"

\* filepath.Dir of a path with at least two segments
PathDir(p) == SubSeq(p, 1, LastSlash(p) - 1)

\* filepath.Base of a path with at least two segments
PathBase(p) == SubSeq(p, LastSlash(p) + 1, Len(p))

IsFile(fs, p) == p \in DOMAIN fs.files

IsDir(fs, p) == p \in fs.dirs

\* the paths of the immediate children of directory d
Children(fs, d) ==
    {p \in (DOMAIN fs.files) \cup fs.dirs :
        /\ HasPrefix(p, d \o <<"/">>)
        /\ \A j \in (Len(d) + 2)..Len(p) : p[j] # "/"}

\* os.MkdirAll: creates the directory and its missing ancestors; fails when a
\* component of the path is a regular file
MkdirAll(fs, p) ==
    LET chain == {SubSeq(p, 1, k - 1) : k \in {j \in 1..Len(p) : p[j] = "/"}} \cup {p}
    IN  IF \E q \in chain : IsFile(fs, q)
        THEN [fs |-> fs, err |-> "other"]
        ELSE [fs |-> [fs EXCEPT !.dirs = @ \cup chain], err |-> "nil"]

\* os.WriteFile: creates or truncates the file
WriteFile(fs, p, data) ==
    IF IsDir(fs, p) THEN [fs |-> fs, err |-> "other"]
    ELSE IF ~IsDir(fs, PathDir(p)) THEN [fs |-> fs, err |-> "notexist"]
    ELSE [fs |-> [fs EXCEPT !.files = (p :> data) @@ @], err |-> "nil"]

\* os.ReadFile
ReadFile(fs, p) ==
    IF IsFile(fs, p) THEN [data |-> fs.files[p], err |-> "nil"]
    ELSE IF IsDir(fs, p) THEN [data |-> <<>>, err |-> "other"]
    ELSE [data |-> <<>>, err |-> "notexist"]

\* os.Remove: removes a file or an empty directory
Remove(fs, p) ==
    IF IsFile(fs, p)
    THEN [fs |-> [fs EXCEPT !.files = [q \in (DOMAIN @) \ {p} |-> @[q]]], err |-> "nil"]
    ELSE IF IsDir(fs, p)
    THEN IF Children(fs, p) = {}
         THEN [fs |-> [fs EXCEPT !.dirs = @ \ {p}], err |-> "nil"]
         ELSE [fs |-> fs, err |-> "other"]
    ELSE [fs |-> fs, err |-> "notexist"]

Under(p, d) == p = d \/ HasPrefix(p, d \o <<"/">>)

\* os.RemoveAll: removes the path and everything below it; no error when the
\* path does not exist
RemoveAll(fs, p) ==
    [fs |-> [dirs |-> {d \in fs.dirs : ~Under(d, p)},
             files |-> [q \in {f \in DOMAIN fs.files : ~Under(f, p)} |-> fs.files[q]]],
     err |-> "nil"]

\* os.ReadDir: the entries of the directory sorted by file name
ReadDir(fs, d) ==
    IF IsDir(fs, d)
    THEN LET names == SortStrings({PathBase(p) : p \in Children(fs, d)})
         IN  [entries |-> [i \in 1..Len(names) |->
                              [Name |-> names[i],
                               IsDir |-> IsDir(fs, d \o <<"/">> \o names[i])]],
              err |-> "nil"]
    ELSE IF IsFile(fs, d) THEN [entries |-> <<>>, err |-> "other"]
    ELSE [entries |-> <<>>, err |-> "notexist"]

-----------------------------------------------------------------------------
(* fsartifact: the address scheme.                                         *)

userNamespace == <<"u", "s", "e", "r", ":">>

userSegment == <<"u", "s", "e", "r">>

fileHasUserNamespace(filename) == HasPrefix(filename, userNamespace)

\* mutant: the path is built without the user
fs_buildPath_noUser(appName, userID, sessionID, fileName, version) ==
    rootDir \o Slash \o appName \o Slash
    \o (IF fileHasUserNamespace(fileName) THEN userSegment ELSE sessionID)
    \o Slash \o fileName \o Slash \o FormatInt(version)

fs_buildPath(appName, userID, sessionID, fileName, version) ==
    IF fileHasUserNamespace(fileName)
    THEN rootDir \o Slash \o appName \o Slash \o userID \o Slash \o userSegment
         \o Slash \o fileName \o Slash \o FormatInt(version)
    ELSE rootDir \o Slash \o appName \o Slash \o userID \o Slash \o sessionID
         \o Slash \o fileName \o Slash \o FormatInt(version)

\* mutant: the directory of the user is taken for that of the artifact
fs_buildDir_userOnly(appName, userID, sessionID, fileName) ==
    rootDir \o Slash \o appName \o Slash \o userID

fs_buildDir(appName, userID, sessionID, fileName) ==
    IF fileHasUserNamespace(fileName)
    THEN rootDir \o Slash \o appName \o Slash \o userID \o Slash \o userSegment
         \o Slash \o fileName
    ELSE rootDir \o Slash \o appName \o Slash \o userID \o Slash \o sessionID
         \o Slash \o fileName

fs_buildSessionDir(appName, userID, sessionID) ==
    rootDir \o Slash \o appName \o Slash \o userID \o Slash \o sessionID

fs_buildUserDir(appName, userID) ==
    rootDir \o Slash \o appName \o Slash \o userID \o Slash \o userSegment

-----------------------------------------------------------------------------
(* fsartifact.fsService: each operation maps the file system and a         *)
(* request to the file system afterwards and the response.                 *)

\* the body of the loop of fsService.Versions: the entries that are kept
fs_isVersionEntry(entry) ==
    /\ ~entry.IsDir
    /\ ~HasSuffix(entry.Name, metaSuffix)
    /\ ~ParseInt(entry.Name).err

fsService_Versions(fs, req) ==
    IF ~ValidateId(req) THEN [fs |-> fs, resp |-> ErrResp("invalid")]
    ELSE
    LET dir == fs_buildDir(req.AppName, req.UserID, req.SessionID, req.FileName)
        rd == ReadDir(fs, dir)
        kept == SelectSeq(rd.entries, fs_isVersionEntry)
        versions == [i \in 1..Len(kept) |-> ParseInt(kept[i].Name).v]
    IN  IF rd.err = "notexist" THEN [fs |-> fs, resp |-> ErrResp("notfound")]
        ELSE IF rd.err # "nil" THEN [fs |-> fs, resp |-> ErrResp("io")]
        ELSE IF Len(versions) = 0 THEN [fs |-> fs, resp |-> ErrResp("notfound")]
        ELSE [fs |-> fs,
              resp |-> Resp("nil", 0, SortInts(versions), <<>>, <<>>, <<>>)]

\* mutant: the highest existing version is taken as it is
fs_nextVersion_noIncrement(fs, req) ==
    IF req.Version > 0 THEN req.Version
    ELSE LET response == fsService_Versions(fs, req).resp
         IN  IF response.err = "nil" /\ Len(response.Versions) > 0
             THEN MaxOf(response.Versions)
             ELSE 1

\* lines 90..101 of fsService.Save
fs_nextVersion(fs, req) ==
    IF req.Version > 0 THEN req.Version
    ELSE LET response == fsService_Versions(fs, req).resp
         IN  IF response.err = "nil" /\ Len(response.Versions) > 0
             THEN MaxOf(response.Versions) + 1
             ELSE 1

\* lines 108..117 of fsService.Save
fs_payload(part) ==
    IF part.InlineData.present
    THEN [data |-> part.InlineData.Data, contentType |-> part.InlineData.MIMEType]
    ELSE [data |-> part.Text, contentType |-> textPlain]

\* lines 123..131 of fsService.Save: the sidecar file with the content type;
\* the payload file is removed again when it cannot be written
fs_writeMeta(fs, path, contentType, nextVersion) ==
    LET w2 == WriteFile(fs, path \o metaSuffix, contentType)
    IN  IF w2.err # "nil"
        THEN [fs |-> Remove(w2.fs, path).fs, resp |-> ErrResp("io")]
        ELSE [fs |-> w2.fs, resp |-> Resp("nil", nextVersion, <<>>, <<>>, <<>>, <<>>)]

\* lines 119..131 of fsService.Save: the payload file, then the sidecar file
fs_writeArtifact(fs, path, pl, nextVersion) ==
    LET w1 == WriteFile(fs, path, pl.data)
    IN  IF w1.err # "nil" THEN [fs |-> w1.fs, resp |-> ErrResp("io")]
        ELSE fs_writeMeta(w1.fs, path, pl.contentType, nextVersion)

\* lines 103..131 of fsService.Save, the version being decided
fs_saveVersion(fs, req, nextVersion) ==
    LET path == fs_buildPath(req.AppName, req.UserID, req.SessionID, req.FileName,
                             nextVersion)
        md == MkdirAll(fs, PathDir(path))
    IN  IF md.err # "nil" THEN [fs |-> md.fs, resp |-> ErrResp("io")]
        ELSE fs_writeArtifact(md.fs, path, fs_payload(req.Part), nextVersion)

fsService_Save(fs, req) ==
    IF ~ValidateSave(req) THEN [fs |-> fs, resp |-> ErrResp("invalid")]
    ELSE fs_saveVersion(fs, req, fs_nextVersion(fs, req))

\* mutant: the sidecar file is not read
fs_contentType_noSidecar(fs, path) == textPlain

\* lines 162..169 of fsService.Load
fs_contentType(fs, path) ==
    LET meta == ReadFile(fs, path \o metaSuffix)
    IN  IF meta.err = "nil" THEN meta.data ELSE textPlain

fsService_Load(fs, req) ==
    IF ~ValidateId(req) THEN [fs |-> fs, resp |-> ErrResp("invalid")]
    ELSE
    LET response == fsService_Versions(fs, req).resp
        version == IF req.Version = 0 /\ response.err = "nil"
                   THEN MaxOf(response.Versions) ELSE req.Version
        path == fs_buildPath(req.AppName, req.UserID, req.SessionID, req.FileName,
                             version)
        rf == ReadFile(fs, path)
    IN  IF req.Version = 0 /\ response.err # "nil"
        THEN [fs |-> fs, resp |-> ErrResp(response.err)]
        ELSE IF rf.err = "notexist" THEN [fs |-> fs, resp |-> ErrResp("notfound")]
        ELSE IF rf.err # "nil" THEN [fs |-> fs, resp |-> ErrResp("io")]
        ELSE [fs |-> fs,
              resp |-> Resp("nil", 0, <<>>, <<>>, rf.data, fs_contentType(fs, path))]

\* mutant: the directory of the artifact is removed instead of the file
fs_removeVersion_wholeDir(fs, path) == RemoveAll(fs, PathDir(path))

\* lines 185..187 of fsService.Delete: the payload file is removed, then the
\* sidecar file; err is the result of the first removal
fs_removeVersion(fs, path) ==
    LET r1 == Remove(fs, path)
        r2 == Remove(r1.fs, path \o metaSuffix)
    IN  [fs |-> r2.fs, err |-> r1.err]

fsService_Delete(fs, req) ==
    IF ~ValidateId(req) THEN [fs |-> fs, resp |-> ErrResp("invalid")]
    ELSE IF req.Version # 0
    THEN LET path == fs_buildPath(req.AppName, req.UserID, req.SessionID,
                                  req.FileName, req.Version)
             r == fs_removeVersion(fs, path)
         IN  IF r.err # "nil" /\ r.err # "notexist"
             THEN [fs |-> r.fs, resp |-> ErrResp("io")]
             ELSE [fs |-> r.fs, resp |-> ErrResp("nil")]
    ELSE LET dir == fs_buildDir(req.AppName, req.UserID, req.SessionID, req.FileName)
             ra == RemoveAll(fs, dir)
         IN  IF ra.err # "nil" THEN [fs |-> ra.fs, resp |-> ErrResp("io")]
             ELSE [fs |-> ra.fs, resp |-> ErrResp("nil")]

\* the readDir helper of fsService.List: the names it adds to filenamesSet
fs_readDir(fs, dir) ==
    LET rd == ReadDir(fs, dir)
    IN  IF rd.err # "nil" THEN {}
        ELSE {rd.entries[i].Name : i \in {j \in 1..Len(rd.entries) : rd.entries[j].IsDir}}

fsService_List(fs, req) ==
    IF ~ValidateList(req) THEN [fs |-> fs, resp |-> ErrResp("invalid")]
    ELSE
    LET filenamesSet ==
            fs_readDir(fs, fs_buildSessionDir(req.AppName, req.UserID, req.SessionID))
            \cup fs_readDir(fs, fs_buildUserDir(req.AppName, req.UserID))
    IN  [fs |-> fs, resp |-> Resp("nil", 0, <<>>, SortStrings(filenamesSet), <<>>, <<>>)]

-----------------------------------------------------------------------------
(* The bucket (gocloud.dev/blob): objs maps a key to the object, its data  *)
(* and its content type.  A listing returns the keys under the prefix in   *)
(* ascending byte-wise key order.  Content types written are non-empty     *)
(* (an empty one would be replaced by a sniffed type by blob.Writer).      *)

bucket_List(objs, prefix) == SortStrings({k \in DOMAIN objs : HasPrefix(k, prefix)})

bucket_Write(objs, key, data, contentType) ==
    (key :> [Data |-> data, ContentType |-> contentType]) @@ objs

\* bucket.Delete: gcerrors.NotFound when the key does not exist
bucket_Delete(objs, key) ==
    IF key \in DOMAIN objs
    THEN [objs |-> [k \in (DOMAIN objs) \ {key} |-> objs[k]], err |-> "nil"]
    ELSE [objs |-> objs, err |-> "notfound"]

-----------------------------------------------------------------------------
(* s3artifact: the address scheme.                                         *)

s3_buildKey(appName, userID, sessionID, fileName, version) ==
    IF fileHasUserNamespace(fileName)
    THEN appName \o Slash \o userID \o Slash \o userSegment
         \o Slash \o fileName \o Slash \o FormatInt(version)
    ELSE appName \o Slash \o userID \o Slash \o sessionID
         \o Slash \o fileName \o Slash \o FormatInt(version)

\* mutant: the prefix of a user-scoped artifact is built with the session
s3_buildKeyPrefix_sessionOnly(appName, userID, sessionID, fileName) ==
    appName \o Slash \o userID \o Slash \o sessionID \o Slash \o fileName \o Slash

s3_buildKeyPrefix(appName, userID, sessionID, fileName) ==
    IF fileHasUserNamespace(fileName)
    THEN appName \o Slash \o userID \o Slash \o userSegment \o Slash \o fileName \o Slash
    ELSE appName \o Slash \o userID \o Slash \o sessionID \o Slash \o fileName \o Slash

s3_buildSessionPrefix(appName, userID, sessionID) ==
    appName \o Slash \o userID \o Slash \o sessionID \o Slash

s3_buildUserPrefix(appName, userID) ==
    appName \o Slash \o userID \o Slash \o userSegment \o Slash

-----------------------------------------------------------------------------
(* s3artifact.s3Service.                                                   *)

\* the loop of s3Service.versions: the keys whose trailing segment parses
s3_isVersionKey(key) ==
    LET segments == Split(key) IN ~ParseInt(segments[Len(segments)]).err

s3_keyVersion(key) ==
    LET segments == Split(key) IN ParseInt(segments[Len(segments)]).v

\* s3Service.versions: no error when no version is found; the versions are
\* in the order of the listing
s3Service_versions(objs, req) ==
    IF ~ValidateId(req) THEN [objs |-> objs, resp |-> ErrResp("invalid")]
    ELSE
    LET prefix == s3_buildKeyPrefix(req.AppName, req.UserID, req.SessionID, req.FileName)
        kept == SelectSeq(bucket_List(objs, prefix), s3_isVersionKey)
        versions == [i \in 1..Len(kept) |-> s3_keyVersion(kept[i])]
    IN  [objs |-> objs, resp |-> Resp("nil", 0, versions, <<>>, <<>>, <<>>)]

s3Service_Versions(objs, req) ==
    LET r == s3Service_versions(objs, req)
    IN  IF r.resp.err # "nil" THEN r
        ELSE IF Len(r.resp.Versions) = 0 THEN [objs |-> objs, resp |-> ErrResp("notfound")]
        ELSE r

\* mutant: the number of the listed versions is counted on
s3_nextVersion_countPlusOne(response) == Len(response.Versions) + 1

\* lines 105..116 of s3Service.Save: req.Version is not read
s3_nextVersion(response) ==
    IF Len(response.Versions) > 0 THEN MaxOf(response.Versions) + 1 ELSE 1

\* lines 120..147 of s3Service.Save
s3_payload(part) ==
    IF part.InlineData.present
    THEN [data |-> part.InlineData.Data, contentType |-> part.InlineData.MIMEType]
    ELSE [data |-> part.Text, contentType |-> textPlain]

s3Service_Save(objs, req) ==
    IF ~ValidateSave(req) THEN [objs |-> objs, resp |-> ErrResp("invalid")]
    ELSE
    LET response == s3Service_versions(objs, req).resp
        nextVersion == s3_nextVersion(response)
        key == s3_buildKey(req.AppName, req.UserID, req.SessionID, req.FileName,
                           nextVersion)
        pl == s3_payload(req.Part)
    IN  IF response.err # "nil" THEN [objs |-> objs, resp |-> ErrResp("io")]
        ELSE [objs |-> bucket_Write(objs, key, pl.data, pl.contentType),
              resp |-> Resp("nil", nextVersion, <<>>, <<>>, <<>>, <<>>)]

RECURSIVE s3_deleteAll(_, _, _)
\* the deletions spawned by s3Service.Delete for the listed versions, none
\* of which fails here: a not-found result counts as success
s3_deleteAll(objs, req, versions) ==
    IF versions = <<>> THEN objs
    ELSE LET key == s3_buildKey(req.AppName, req.UserID, req.SessionID, req.FileName,
                                Head(versions))
         IN  s3_deleteAll(bucket_Delete(objs, key).objs, req, Tail(versions))

s3Service_Delete(objs, req) ==
    IF ~ValidateId(req) THEN [objs |-> objs, resp |-> ErrResp("invalid")]
    ELSE IF req.Version # 0
    THEN LET key == s3_buildKey(req.AppName, req.UserID, req.SessionID, req.FileName,
                                req.Version)
         IN  [objs |-> bucket_Delete(objs, key).objs, resp |-> ErrResp("nil")]
    ELSE LET response == s3Service_versions(objs, req).resp
         IN  IF response.err # "nil" THEN [objs |-> objs, resp |-> ErrResp("io")]
             ELSE [objs |-> s3_deleteAll(objs, req, response.Versions),
                   resp |-> ErrResp("nil")]

\* mutant: the listing is taken to be ascending and its last entry is used
s3_latest_lastListed(response) == response.Versions[Len(response.Versions)]

\* line 222 of s3Service.Load
s3_latest(response) == MaxOf(response.Versions)

s3Service_Load(objs, req) ==
    IF ~ValidateId(req) THEN [objs |-> objs, resp |-> ErrResp("invalid")]
    ELSE
    LET response == s3Service_versions(objs, req).resp
        version == IF req.Version = 0 THEN s3_latest(response) ELSE req.Version
        key == s3_buildKey(req.AppName, req.UserID, req.SessionID, req.FileName, version)
    IN  IF req.Version = 0 /\ response.err # "nil"
        THEN [objs |-> objs, resp |-> ErrResp("io")]
        ELSE IF req.Version = 0 /\ Len(response.Versions) = 0
        THEN [objs |-> objs, resp |-> ErrResp("notfound")]
        ELSE IF key \notin DOMAIN objs
        THEN [objs |-> objs, resp |-> ErrResp("notfound")]
        ELSE [objs |-> objs,
              resp |-> Resp("nil", 0, <<>>, <<>>, objs[key].Data, objs[key].ContentType)]

\* s3Service.fetchFilenamesFromPrefix: the names added to filenamesSet; err
\* when a key has fewer than two segments
s3_fetchFilenamesFromPrefix(objs, prefix) ==
    LET keys == bucket_List(objs, prefix)
    IN  [err |-> \E i \in 1..Len(keys) : Len(Split(keys[i])) < 2,
         names |-> {LET segments == Split(keys[i])
                    IN  segments[Len(segments) - 1] :
                        i \in {j \in 1..Len(keys) : Len(Split(keys[j])) >= 2}}]

s3Service_List(objs, req) ==
    IF ~ValidateList(req) THEN [objs |-> objs, resp |-> ErrResp("invalid")]
    ELSE
    LET session == s3_fetchFilenamesFromPrefix(
                       objs, s3_buildSessionPrefix(req.AppName, req.UserID, req.SessionID))
        user == s3_fetchFilenamesFromPrefix(
                    objs, s3_buildUserPrefix(req.AppName, req.UserID))
    IN  IF session.err \/ user.err THEN [objs |-> objs, resp |-> ErrResp("io")]
        ELSE [objs |-> objs,
              resp |-> Resp("nil", 0, <<>>, SortStrings(session.names \cup user.names),
                            <<>>, <<>>)]

-----------------------------------------------------------------------------
(* The state machine: one backend, chosen at construction, serves the      *)
(* requests of a caller one after the other.  last is the request being    *)
(* answered with its response, until the caller has taken it (Return);     *)
(* run is the sequence of versions returned by the Save calls without      *)
(* explicit version made on one artifact since it had no stored version,   *)
(* with no other operation on that artifact in between.                    *)

Backends == {"fs", "s3"}

\* the request families: "deep" is one artifact with versions up to
\* MaxVersion, "wide" is every identity with versions up to WideVersions
Scopes == {"deep", "wide"}

FS == [dirs |-> fsDirs, files |-> fsFiles]

VersionBound == IF scope = "deep" THEN MaxVersion ELSE WideVersions

Identities ==
    IF scope = "deep"
    THEN {Req(<<"a">>, <<"u">>, <<"s">>, <<"f">>, 0, NoPart)}
    ELSE {Req(a, u, s, f, 0, NoPart) :
              a \in AppNames, u \in UserIDs, s \in SessionIDs, f \in FileNames}

Sessions ==
    IF scope = "deep"
    THEN {Req(<<"a">>, <<"u">>, <<"s">>, <<>>, 0, NoPart)}
    ELSE {Req(a, u, s, <<>>, 0, NoPart) : a \in AppNames, u \in UserIDs, s \in SessionIDs}

SaveRequests == {[id EXCEPT !.Version = v, !.Part = p] :
                     id \in Identities, v \in 0..VersionBound, p \in Parts}

VersionRequests == {[id EXCEPT !.Version = v] : id \in Identities, v \in 0..VersionBound}

\* the location of all versions of the artifact the request names
Container(req) ==
    IF backend = "fs"
    THEN fs_buildDir(req.AppName, req.UserID, req.SessionID, req.FileName)
    ELSE s3_buildKeyPrefix(req.AppName, req.UserID, req.SessionID, req.FileName)

NoReq == Req(<<>>, <<>>, <<>>, <<>>, 0, NoPart)

NoRun == [container |-> <<>>, versions |-> <<>>]

Record(op, req, resp) == [op |-> op, req |-> req, resp |-> resp]

\* the values of loc, first, procs and fan where they are not in use
NoLoc == [built |-> FALSE]

NoFirst == [set |-> FALSE]

NoProcs == << >>

NoFan == [phase |-> "idle"]

NoJob == [pc |-> "none"]

\* run after a Save: hadNone is whether the artifact had no stored version
RunAfterSave(req, resp, hadNone) ==
    IF req.Version # 0 \/ resp.err # "nil" THEN
        IF run.container = Container(req) THEN NoRun ELSE run
    ELSE IF hadNone THEN [container |-> Container(req), versions |-> <<resp.Version>>]
    ELSE IF run.container = Container(req)
    THEN [run EXCEPT !.versions = Append(@, resp.Version)]
    ELSE run

\* run after any other operation on an artifact
RunAfterOther(req) == IF run.container = Container(req) THEN NoRun ELSE run

Init ==
    /\ backend \in Backends
    /\ scope \in Scopes
    /\ fsDirs = {rootDir}
    /\ fsFiles = << >>
    /\ s3Objects = << >>
    /\ last = Record("none", NoReq, ErrResp("nil"))
    /\ run = NoRun
    /\ loc = NoLoc
    /\ first = NoFirst
    /\ peer = ErrResp("nil")
    /\ procs = NoProcs
    /\ fan = NoFan
    /\ job = NoJob

fsSave(req) ==
    LET r == fsService_Save(FS, req)
        before == fsService_Versions(FS, req).resp
    IN  /\ backend = "fs"
        /\ last.op = "none"
        /\ fs_nextVersion(FS, req) <= VersionBound
        \* at most MaxObjects payload files afterwards
        /\ Cardinality({p \in DOMAIN r.fs.files : ~HasSuffix(p, metaSuffix)}) <= MaxObjects
        /\ fsDirs' = r.fs.dirs
        /\ fsFiles' = r.fs.files
        /\ last' = Record("Save", req, r.resp)
        /\ run' = RunAfterSave(req, r.resp, before.err # "nil")
        /\ UNCHANGED <<backend, scope, s3Objects>>

fsLoad(req) ==
    LET r == fsService_Load(FS, req)
    IN  /\ backend = "fs"
        /\ last.op = "none"
        /\ last' = Record("Load", req, r.resp)
        /\ run' = RunAfterOther(req)
        /\ UNCHANGED <<backend, scope, fsDirs, fsFiles, s3Objects>>

fsDelete(req) ==
    LET r == fsService_Delete(FS, req)
    IN  /\ backend = "fs"
        /\ last.op = "none"
        /\ fsDirs' = r.fs.dirs
        /\ fsFiles' = r.fs.files
        /\ last' = Record("Delete", req, r.resp)
        /\ run' = RunAfterOther(req)
        /\ UNCHANGED <<backend, scope, s3Objects>>

fsList(req) ==
    LET r == fsService_List(FS, req)
    IN  /\ backend = "fs"
        /\ last.op = "none"
        /\ last' = Record("List", req, r.resp)
        /\ UNCHANGED <<backend, scope, fsDirs, fsFiles, s3Objects, run>>

fsVersions(req) ==
    LET r == fsService_Versions(FS, req)
    IN  /\ backend = "fs"
        /\ last.op = "none"
        /\ last' = Record("Versions", req, r.resp)
        /\ run' = RunAfterOther(req)
        /\ UNCHANGED <<backend, scope, fsDirs, fsFiles, s3Objects>>

s3Save(req) ==
    LET r == s3Service_Save(s3Objects, req)
        before == s3Service_versions(s3Objects, req).resp
    IN  /\ backend = "s3"
        /\ last.op = "none"
        /\ s3_nextVersion(before) <= VersionBound
        /\ Cardinality(DOMAIN r.objs) <= MaxObjects
        /\ s3Objects' = r.objs
        /\ last' = Record("Save", req, r.resp)
        /\ run' = RunAfterSave([req EXCEPT !.Version = 0], r.resp, Len(before.Versions) = 0)
        /\ UNCHANGED <<backend, scope, fsDirs, fsFiles>>

s3Load(req) ==
    LET r == s3Service_Load(s3Objects, req)
    IN  /\ backend = "s3"
        /\ last.op = "none"
        /\ last' = Record("Load", req, r.resp)
        /\ run' = RunAfterOther(req)
        /\ UNCHANGED <<backend, scope, fsDirs, fsFiles, s3Objects>>

s3Delete(req) ==
    LET r == s3Service_Delete(s3Objects, req)
    IN  /\ backend = "s3"
        /\ last.op = "none"
        /\ s3Objects' = r.objs
        /\ last' = Record("Delete", req, r.resp)
        /\ run' = RunAfterOther(req)
        /\ UNCHANGED <<backend, scope, fsDirs, fsFiles>>

s3List(req) ==
    LET r == s3Service_List(s3Objects, req)
    IN  /\ backend = "s3"
        /\ last.op = "none"
        /\ last' = Record("List", req, r.resp)
        /\ UNCHANGED <<backend, scope, fsDirs, fsFiles, s3Objects, run>>

s3Versions(req) ==
    LET r == s3Service_Versions(s3Objects, req)
    IN  /\ backend = "s3"
        /\ last.op = "none"
        /\ last' = Record("Versions", req, r.resp)
        /\ run' = RunAfterOther(req)
        /\ UNCHANGED <<backend, scope, fsDirs, fsFiles, s3Objects>>

\* the caller takes the response; the next request follows
Return ==
    /\ last.op # "none"
    /\ last' = Record("none", NoReq, ErrResp("nil"))
    /\ UNCHANGED <<backend, scope, fsDirs, fsFiles, s3Objects, run>>

Next ==
    \/ \E req \in SaveRequests : fsSave(req) /\ UNCHANGED aux
    \/ \E req \in VersionRequests : fsLoad(req) /\ UNCHANGED aux
    \/ \E req \in VersionRequests : fsDelete(req) /\ UNCHANGED aux
    \/ \E req \in Sessions : fsList(req) /\ UNCHANGED aux
    \/ \E req \in Identities : fsVersions(req) /\ UNCHANGED aux
    \/ \E req \in SaveRequests : s3Save(req) /\ UNCHANGED aux
    \/ \E req \in VersionRequests : s3Load(req) /\ UNCHANGED aux
    \/ \E req \in VersionRequests : s3Delete(req) /\ UNCHANGED aux
    \/ \E req \in Sessions : s3List(req) /\ UNCHANGED aux
    \/ \E req \in Identities : s3Versions(req) /\ UNCHANGED aux
    \/ Return /\ UNCHANGED aux

Spec == Init /\ [][Next]_vars

-----------------------------------------------------------------------------
(* What the claims speak about: the responses of the operations in a       *)
(* given store, and the versions and payloads that are stored.             *)

Identity(session, file) == Req(<<"a">>, <<"u">>, session, file, 0, NoPart)

WithVersion(req, v) == [req EXCEPT !.Version = v]

VersionsIn(fs, objs, req) ==
    IF backend = "fs" THEN fsService_Versions(fs, req).resp
    ELSE s3Service_Versions(objs, req).resp

LoadIn(fs, objs, req) ==
    IF backend = "fs" THEN fsService_Load(fs, req).resp
    ELSE s3Service_Load(objs, req).resp

ListIn(fs, objs, req) ==
    IF backend = "fs" THEN fsService_List(fs, req).resp
    ELSE s3Service_List(objs, req).resp

SaveIn(fs, objs, req) ==
    IF backend = "fs" THEN fsService_Save(fs, req).resp
    ELSE s3Service_Save(objs, req).resp

\* the location of version v of the artifact the request names
Location(req, v) ==
    IF backend = "fs"
    THEN fs_buildPath(req.AppName, req.UserID, req.SessionID, req.FileName, v)
    ELSE s3_buildKey(req.AppName, req.UserID, req.SessionID, req.FileName, v)

\* the versions of the artifact whose payload is in the store
StoredIn(fs, objs, req) ==
    {v \in 1..(MaxVersion + 1) :
        Location(req, v) \in (IF backend = "fs" THEN DOMAIN fs.files ELSE DOMAIN objs)}

Stored(req) == StoredIn(FS, s3Objects, req)

\* the payload and the content type recorded in the store for a stored version
StoredData(req, v) ==
    IF backend = "fs" THEN fsFiles[Location(req, v)] ELSE s3Objects[Location(req, v)].Data

StoredType(req, v) ==
    IF backend = "fs" THEN fsFiles[Location(req, v) \o metaSuffix]
    ELSE s3Objects[Location(req, v)].ContentType

\* the bytes and the content type a Save request hands over
GivenData(part) == IF part.InlineData.present THEN part.InlineData.Data ELSE part.Text

GivenType(part) == IF part.InlineData.present THEN part.InlineData.MIMEType ELSE textPlain

Ascending(s) == \A i \in 1..(Len(s) - 1) : s[i] < s[i + 1]

Answered(op) == last.op = op /\ last.resp.err = "nil"

-----------------------------------------------------------------------------
\* C1: the Save calls without explicit version made in a row on an artifact
\* that started with no stored version return 1, 2, ..., n in that order
C1_SavesReturnOneToN == \A i \in 1..Len(run.versions) : run.versions[i] = i

C1_Witness ==
    /\ Answered("Save")
    /\ Len(run.versions) >= 2
    /\ run.container = Container(last.req)

\* C2: Load with the version a successful Save returned yields the bytes
\* and the content type handed to that Save
C2_SaveLoadRoundTrip ==
    Answered("Save") =>
        LET l == LoadIn(FS, s3Objects, WithVersion(last.req, last.resp.Version))
        IN  /\ l.err = "nil"
            /\ l.Data = GivenData(last.req.Part)
            /\ l.MIMEType = GivenType(last.req.Part)

C2_Witness ==
    /\ Answered("Save")
    /\ last.req.Part.InlineData.present
    /\ Cardinality(Stored(last.req)) >= 2

\* C3: Versions fails with not-found when no version of the artifact is
\* stored, and otherwise returns the stored versions, each once, ascending
C3_VersionsAscendingExact ==
    last.op = "Versions" =>
        IF Stored(last.req) = {} THEN last.resp.err = "notfound"
        ELSE /\ last.resp.err = "nil"
             /\ Len(last.resp.Versions) > 0
             /\ Ascending(last.resp.Versions)
             /\ \A i \in 1..Len(last.resp.Versions) : last.resp.Versions[i] > 0
             /\ Range(last.resp.Versions) = Stored(last.req)

\* C4: Load with version 0 returns the highest stored version; Load fails
\* with not-found when nothing is stored or the named version is not stored
C4_LoadLatestOrNotFound ==
    last.op = "Load" =>
        LET stored == Stored(last.req)
            top == CHOOSE v \in stored : \A w \in stored : w <= v
        IN  /\ stored = {} => last.resp.err = "notfound"
            /\ (last.req.Version = 0 /\ stored # {}) =>
                   /\ last.resp.err = "nil"
                   /\ last.resp.Data = StoredData(last.req, top)
                   /\ last.resp.MIMEType = StoredType(last.req, top)
            /\ (last.req.Version > 0 /\ last.req.Version \notin stored) =>
                   last.resp.err = "notfound"

C4_Witness ==
    /\ Answered("Load")
    /\ last.req.Version = 0
    /\ Cardinality(Stored(last.req)) >= 2
    /\ \E v, w \in Stored(last.req) : StoredData(last.req, v) # StoredData(last.req, w)

C4_WitnessNotFound ==
    /\ last.op = "Load"
    /\ last.resp.err = "notfound"
    /\ last.req.Version > 0
    /\ Stored(last.req) # {}


\* C5: a successful Delete of version V > 0 leaves V out of Versions, and
\* every other version stored before it is still stored and loads as before
C5_DeleteVersionFrame ==
    [][(last'.op = "Delete" /\ last'.resp.err = "nil" /\ last'.req.Version > 0) =>
        LET req == last'.req
            after == VersionsIn(FS', s3Objects', req)
        IN  /\ req.Version \notin Range(after.Versions)
            /\ \A v \in StoredIn(FS, s3Objects, req) \ {req.Version} :
                   /\ v \in StoredIn(FS', s3Objects', req)
                   /\ v \in Range(after.Versions)
                   /\ LoadIn(FS', s3Objects', WithVersion(req, v)).err = "nil"
                   /\ LoadIn(FS', s3Objects', WithVersion(req, v))
                          = LoadIn(FS, s3Objects, WithVersion(req, v))]_vars

C5_Witness ==
    /\ Answered("Delete")
    /\ last.req.Version > 0
    /\ last.req.Version < MaxVersion
    /\ Stored(last.req) = {last.req.Version + 1}
    /\ StoredData(last.req, last.req.Version + 1) = <<"w">>

\* C6: Delete with version 0 removes every version, and afterwards Versions
\* and Load fail with not-found, List does not return the name, and the
\* next Save without explicit version returns 1
C6_DeleteAllForgets ==
    (Answered("Delete") /\ last.req.Version = 0) =>
        /\ Stored(last.req) = {}
        /\ VersionsIn(FS, s3Objects, last.req).err = "notfound"
        /\ \A v \in 0..MaxVersion :
               LoadIn(FS, s3Objects, WithVersion(last.req, v)).err = "notfound"
        /\ \A n \in Range(ListIn(FS, s3Objects, last.req).FileNames) :
               n # last.req.FileName
        /\ \A p \in Parts :
               SaveIn(FS, s3Objects, [last.req EXCEPT !.Part = p]).Version = 1

\* C7: a Delete of a version that is not stored, or with version 0 of an
\* artifact with no stored version, succeeds and leaves the store unchanged
C7_DeleteAbsentChangesNothing ==
    [][(/\ last'.op = "Delete"
        /\ \/ last'.req.Version > 0 /\ last'.req.Version \notin Stored(last'.req)
           \/ last'.req.Version = 0 /\ Stored(last'.req) = {}) =>
        /\ last'.resp.err = "nil"
        /\ fsDirs' = fsDirs
        /\ fsFiles' = fsFiles
        /\ s3Objects' = s3Objects]_vars

\* C8: List returns, ascending and without duplicates, exactly the names of
\* the session-scoped artifacts stored under the session and of the
\* user-scoped artifacts stored under the user
C8_ListIsUnion ==
    last.op = "List" =>
        /\ last.resp.err = "nil"
        /\ last.resp.FileNames =
               SortStrings({f \in FileNames :
                               Stored(Identity(last.req.SessionID, f)) # {}})

\* C9: after a Save or a Delete on a user-scoped artifact under one session,
\* what is stored of it is seen alike from every session of the user: List
\* returns its name, and Versions and Load answer as for the first session
C9_UserScopedVisibleEverywhere ==
    (/\ last.op \in {"Save", "Delete"}
     /\ last.resp.err = "nil"
     /\ fileHasUserNamespace(last.req.FileName)) =>
        LET stored == Stored(last.req)
            mine == VersionsIn(FS, s3Objects, last.req)
        IN  /\ last.op = "Save" => last.resp.Version \in stored
            /\ stored # {} =>
                \A s2 \in SessionIDs :
                    LET other == Identity(s2, last.req.FileName)
                    IN  /\ last.req.FileName \in Range(ListIn(FS, s3Objects, other).FileNames)
                        /\ mine.err = "nil"
                        /\ Range(mine.Versions) = stored
                        /\ VersionsIn(FS, s3Objects, other) = mine
                        /\ \A v \in {0} \cup stored :
                               LET l == LoadIn(FS, s3Objects, WithVersion(other, v))
                               IN  /\ l.err = "nil"
                                   /\ l = LoadIn(FS, s3Objects, WithVersion(last.req, v))
                                   /\ v # 0 => /\ l.Data = StoredData(last.req, v)
                                               /\ l.MIMEType = StoredType(last.req, v)
                                   /\ (last.op = "Save" /\ v = last.resp.Version) =>
                                          /\ l.Data = GivenData(last.req.Part)
                                          /\ l.MIMEType = GivenType(last.req.Part)

C9_Witness ==
    /\ Answered("Save")
    /\ fileHasUserNamespace(last.req.FileName)
    /\ last.req.SessionID = <<"s">>
    /\ last.req.Part.InlineData.present
    /\ Stored(Identity(<<"t">>, <<"f">>)) # {}
    /\ LoadIn(FS, s3Objects, Identity(<<"t">>, last.req.FileName)).Data = <<"w">>

\* C10: a session-scoped artifact saved under one session is not seen from
\* another session that holds nothing under that name: List does not
\* return the name, Versions and Load fail with not-found
C10_SessionScopedIsolated ==
    (Answered("Save") /\ ~fileHasUserNamespace(last.req.FileName)) =>
        \A s2 \in SessionIDs \ {last.req.SessionID} :
            LET other == Identity(s2, last.req.FileName)
            IN  (Stored(other) = {} /\ Container(other) \notin fsDirs) =>
                    /\ \A n \in Range(ListIn(FS, s3Objects, other).FileNames) :
                           n # last.req.FileName
                    /\ VersionsIn(FS, s3Objects, other).err = "notfound"
                    /\ \A v \in 0..MaxVersion :
                           LoadIn(FS, s3Objects, WithVersion(other, v)).err = "notfound"


\* C11: a Save with an explicit version V > 0 succeeds, returns V and
\* leaves the payload and the content type handed over stored at version V
C11_ExplicitVersionStored ==
    (last.op = "Save" /\ last.req.Version > 0) =>
        /\ last.resp.err = "nil"
        /\ last.resp.Version = last.req.Version
        /\ last.req.Version \in Stored(last.req)
        /\ StoredData(last.req, last.req.Version) = GivenData(last.req.Part)
        /\ StoredType(last.req, last.req.Version) = GivenType(last.req.Part)

\* C12: an artifact exists once a Save on it has succeeded, and no longer
\* exists once a Delete has left it without stored version: Versions and
\* Load then fail with not-found and List does not return its name
C12_ExistsWhileStored ==
    /\ Answered("Save") =>
           /\ VersionsIn(FS, s3Objects, last.req).err = "nil"
           /\ last.req.FileName \in Range(ListIn(FS, s3Objects, last.req).FileNames)
    /\ (Answered("Delete") /\ Stored(last.req) = {}) =>
           /\ VersionsIn(FS, s3Objects, last.req).err = "notfound"
           /\ \A v \in 0..MaxVersion :
                  LoadIn(FS, s3Objects, WithVersion(last.req, v)).err = "notfound"
           /\ \A n \in Range(ListIn(FS, s3Objects, last.req).FileNames) :
                  n # last.req.FileName

\* C17: a successful Save without explicit version returns 1 when no
\* version of the artifact was stored, and otherwise the highest version
\* that was stored plus one, also when lower versions are missing
C17_NextAfterHighest ==
    [][(last'.op = "Save" /\ last'.resp.err = "nil" /\ last'.req.Version = 0) =>
        LET before == StoredIn(FS, s3Objects, last'.req)
        IN  last'.resp.Version =
                IF before = {} THEN 1
                ELSE (CHOOSE v \in before : \A w \in before : w <= v) + 1]_vars

C17_Witness ==
    /\ Answered("Save")
    /\ last.req.Version = 0
    /\ last.resp.Version >= 3
    /\ 1 \notin Stored(last.req)
    /\ Cardinality(Stored(last.req)) = 2


-----------------------------------------------------------------------------
(* The address scheme on its own: two request tuples are drawn, and the    *)
(* path and the key of each are built.                                     *)

\* application names and user IDs of the tuples
LocNames == {<<"a">>, <<"u">>}

LocRequests ==
    {Req(a, u, s, f, v, NoPart) :
        a \in LocNames, u \in LocNames, s \in SessionIDs, f \in FileNames,
        v \in 1..MaxVersion}

LocInit ==
    /\ backend = "fs"
    /\ scope = "deep"
    /\ fsDirs = {rootDir}
    /\ fsFiles = << >>
    /\ s3Objects = << >>
    /\ last = Record("none", NoReq, ErrResp("nil"))
    /\ run = NoRun
    /\ loc \in {[built |-> FALSE, x |-> x, y |-> y] : x, y \in LocRequests}
    /\ first = NoFirst
    /\ peer = ErrResp("nil")
    /\ procs = NoProcs
    /\ fan = NoFan
    /\ job = NoJob

\* buildPath and buildKey applied to both tuples
locBuild ==
    /\ ~loc.built
    /\ loc' = [built |-> TRUE, x |-> loc.x, y |-> loc.y,
               fsx |-> fs_buildPath(loc.x.AppName, loc.x.UserID, loc.x.SessionID,
                                    loc.x.FileName, loc.x.Version),
               fsy |-> fs_buildPath(loc.y.AppName, loc.y.UserID, loc.y.SessionID,
                                    loc.y.FileName, loc.y.Version),
               s3x |-> s3_buildKey(loc.x.AppName, loc.x.UserID, loc.x.SessionID,
                                   loc.x.FileName, loc.x.Version),
               s3y |-> s3_buildKey(loc.y.AppName, loc.y.UserID, loc.y.SessionID,
                                   loc.y.FileName, loc.y.Version)]
    /\ UNCHANGED <<backend, scope, fsDirs, fsFiles, s3Objects, last, run,
                   first, peer, procs, fan, job>>

LocNext == locBuild

SpecLoc == LocInit /\ [][LocNext]_vars

\* the two tuples name the same version of the same artifact: the session
\* of a user-scoped artifact does not count
SameArtifactVersion(x, y) ==
    /\ x.AppName = y.AppName
    /\ x.UserID = y.UserID
    /\ x.FileName = y.FileName
    /\ x.Version = y.Version
    /\ (x.SessionID = y.SessionID \/ fileHasUserNamespace(x.FileName))

\* C13 (as stated): two different tuples (appName, userID, sessionID,
\* fileName, version) never get the same path, nor the same key
C13_LocationInjective ==
    (loc.built /\ loc.x # loc.y) => (loc.fsx # loc.fsy /\ loc.s3x # loc.s3y)

\* C13 (amended): two tuples get the same path, and the same key, exactly
\* when they agree on appName, userID, fileName and version and either
\* agree on sessionID or have a fileName with the "user:" prefix
C13_InjectiveUpToScope ==
    loc.built =>
        /\ (loc.fsx = loc.fsy) <=> SameArtifactVersion(loc.x, loc.y)
        /\ (loc.s3x = loc.s3y) <=> SameArtifactVersion(loc.x, loc.y)

C13_Witness ==
    /\ loc.built
    /\ loc.x.SessionID = <<"u", "s", "e", "r">>
    /\ loc.y.SessionID = <<"s">>
    /\ ~fileHasUserNamespace(loc.x.FileName)
    /\ loc.y = [loc.x EXCEPT !.SessionID = <<"s">>]
    /\ loc.x.Version = MaxVersion
    /\ loc.fsx # loc.fsy
    /\ loc.s3x # loc.s3y


-----------------------------------------------------------------------------
(* The service with a history: first keeps the artifact, the version, the  *)
(* payload and the content type of the first successful Save of the        *)
(* behaviour, which is the first Save that produced that version.          *)

\* highest version number used with the history
HistVersions == 2

FirstAfterSave(req, resp) ==
    IF first.set \/ resp.err # "nil" THEN first
    ELSE [set |-> TRUE, container |-> Container(req), version |-> resp.Version,
          data |-> GivenData(req.Part), mime |-> GivenType(req.Part)]

histSave(req) ==
    /\ req.Version <= HistVersions
    /\ (fsSave(req) \/ s3Save(req))
    /\ last'.resp.Version <= HistVersions
    /\ first' = FirstAfterSave(req, last'.resp)
    /\ UNCHANGED <<loc, peer, procs, fan, job>>

histLoad(req) ==
    /\ req.Version <= HistVersions
    /\ (fsLoad(req) \/ s3Load(req))
    /\ UNCHANGED aux

histDelete(req) ==
    /\ req.Version <= HistVersions
    /\ (fsDelete(req) \/ s3Delete(req))
    /\ UNCHANGED aux

HistInit == Init /\ scope = "deep"

HistNext ==
    \/ \E req \in SaveRequests : histSave(req)
    \/ \E req \in VersionRequests : histLoad(req)
    \/ \E req \in VersionRequests : histDelete(req)
    \/ Return /\ UNCHANGED aux

SpecHist == HistInit /\ [][HistNext]_vars

\* C15: every successful Load of the version that the first Save produced,
\* of the artifact of that Save, returns the payload and the content type
\* of that Save, whatever Save, Delete and Load operations came between
C15_VersionImmutable ==
    (/\ first.set
     /\ Answered("Load")
     /\ Container(last.req) = first.container
     /\ last.req.Version = first.version) =>
        /\ last.resp.Data = first.data
        /\ last.resp.MIMEType = first.mime


-----------------------------------------------------------------------------
(* Both backends side by side: each request goes to the filesystem         *)
(* backend and to the object-store backend, both starting empty; last      *)
(* keeps the response of the first and peer the response of the second.    *)

\* highest version number used with the two backends side by side
BothVersions == 2

BothInit ==
    /\ backend = "both"
    /\ scope = "deep"
    /\ fsDirs = {rootDir}
    /\ fsFiles = << >>
    /\ s3Objects = << >>
    /\ last = Record("none", NoReq, ErrResp("nil"))
    /\ run = NoRun
    /\ loc = NoLoc
    /\ first = NoFirst
    /\ peer = ErrResp("nil")
    /\ procs = NoProcs
    /\ fan = NoFan
    /\ job = NoJob

bothSave(req) ==
    LET f == fsService_Save(FS, req)
        s == s3Service_Save(s3Objects, req)
    IN  /\ last.op = "none"
        /\ req.Version <= BothVersions
        /\ fs_nextVersion(FS, req) <= BothVersions
        /\ s3_nextVersion(s3Service_versions(s3Objects, req).resp) <= BothVersions
        /\ fsDirs' = f.fs.dirs
        /\ fsFiles' = f.fs.files
        /\ s3Objects' = s.objs
        /\ last' = Record("Save", req, f.resp)
        /\ peer' = s.resp
        /\ UNCHANGED <<backend, scope, run, loc, first, procs, fan, job>>

bothLoad(req) ==
    /\ last.op = "none"
    /\ req.Version <= BothVersions
    /\ last' = Record("Load", req, fsService_Load(FS, req).resp)
    /\ peer' = s3Service_Load(s3Objects, req).resp
    /\ UNCHANGED <<backend, scope, fsDirs, fsFiles, s3Objects, run, loc, first, procs, fan, job>>

bothDelete(req) ==
    LET f == fsService_Delete(FS, req)
        s == s3Service_Delete(s3Objects, req)
    IN  /\ last.op = "none"
        /\ req.Version <= BothVersions
        /\ fsDirs' = f.fs.dirs
        /\ fsFiles' = f.fs.files
        /\ s3Objects' = s.objs
        /\ last' = Record("Delete", req, f.resp)
        /\ peer' = s.resp
        /\ UNCHANGED <<backend, scope, run, loc, first, procs, fan, job>>

bothList(req) ==
    /\ last.op = "none"
    /\ last' = Record("List", req, fsService_List(FS, req).resp)
    /\ peer' = s3Service_List(s3Objects, req).resp
    /\ UNCHANGED <<backend, scope, fsDirs, fsFiles, s3Objects, run, loc, first, procs, fan, job>>

bothVersions(req) ==
    /\ last.op = "none"
    /\ last' = Record("Versions", req, fsService_Versions(FS, req).resp)
    /\ peer' = s3Service_Versions(s3Objects, req).resp
    /\ UNCHANGED <<backend, scope, fsDirs, fsFiles, s3Objects, run, loc, first, procs, fan, job>>

bothReturn ==
    /\ last.op # "none"
    /\ last' = Record("none", NoReq, ErrResp("nil"))
    /\ peer' = ErrResp("nil")
    /\ UNCHANGED <<backend, scope, fsDirs, fsFiles, s3Objects, run, loc, first, procs, fan, job>>

BothNext ==
    \/ \E req \in SaveRequests : bothSave(req)
    \/ \E req \in VersionRequests : bothLoad(req)
    \/ \E req \in VersionRequests : bothDelete(req)
    \/ \E req \in Sessions : bothList(req)
    \/ \E req \in Identities : bothVersions(req)
    \/ bothReturn

SpecBoth == BothInit /\ [][BothNext]_vars

\* C16: at every step the two backends give the same response: the same
\* outcome (success, not-found), version, versions, names, payload and
\* content type
C16_BackendsAgree == last.resp = peer


-----------------------------------------------------------------------------
(* Concurrent callers: two callers issue operations on one backend, and    *)
(* the steps of their operations (each call to the file system or to the   *)
(* bucket is one step) interleave.  Caller 1 works on one artifact, and    *)
(* caller 2 on an artifact chosen at the start, the same one or another.   *)

Procs == {1, 2}

\* operations a caller issues
ConcCalls == 1

\* the versions the callers name: none (0) or version 1
ConcVersions == {0, 1}

ConcTargets ==
    {Identity(<<"s">>, <<"f">>), Identity(<<"t">>, <<"f">>),
     Identity(<<"u", "s", "e", "r">>, <<"f">>),
     Identity(<<"s">>, <<"u", "s", "e", "r", ":", "f">>)}

\* caller 1 saves text, caller 2 inline data
ConcPart(p) ==
    IF p = 1 THEN [InlineData |-> NoBlob, Text |-> <<"h">>]
    ELSE [InlineData |-> [present |-> TRUE, Data |-> <<"w">>, MIMEType |-> <<"i", "m", "g">>],
          Text |-> <<>>]

ConcRequests(p) ==
    {[op |-> "Save", req |-> [procs[p].target EXCEPT !.Version = v, !.Part = ConcPart(p)]] :
        v \in ConcVersions}
    \cup {[op |-> o, req |-> [procs[p].target EXCEPT !.Version = v]] :
              o \in {"Load", "Delete"}, v \in ConcVersions}
    \cup {[op |-> "Versions", req |-> procs[p].target]}

\* the two targets name different artifacts
DifferentArtifacts ==
    ~SameArtifactVersion(procs[1].target, procs[2].target)

EmptyStore == IF backend = "fs" THEN [dirs |-> {rootDir}, files |-> << >>] ELSE << >>

\* the operation as one step on a store: the store afterwards, the response
Atomic(store, op, req) ==
    IF backend = "fs"
    THEN LET r == CASE op = "Save" -> fsService_Save(store, req)
                    [] op = "Load" -> fsService_Load(store, req)
                    [] op = "Delete" -> fsService_Delete(store, req)
                    [] OTHER -> fsService_Versions(store, req)
         IN  [store |-> r.fs, resp |-> r.resp]
    ELSE LET r == CASE op = "Save" -> s3Service_Save(store, req)
                    [] op = "Load" -> s3Service_Load(store, req)
                    [] op = "Delete" -> s3Service_Delete(store, req)
                    [] OTHER -> s3Service_Versions(store, req)
         IN  [store |-> r.objs, resp |-> r.resp]

\* what a store holds of the artifact the request names
OfArtifact(store, req) ==
    IF backend = "fs"
    THEN LET dir == fs_buildDir(req.AppName, req.UserID, req.SessionID, req.FileName)
         IN  [dirs |-> {d \in store.dirs : Under(d, dir)},
              files |-> [q \in {f \in DOMAIN store.files : Under(f, dir)} |-> store.files[q]]]
    ELSE LET prefix == s3_buildKeyPrefix(req.AppName, req.UserID, req.SessionID, req.FileName)
         IN  [k \in {key \in DOMAIN store : HasPrefix(key, prefix)} |-> store[k]]

IdleProc(target, store) ==
    [target |-> target, pc |-> "idle", op |-> "none", req |-> NoReq,
     seen |-> <<>>, version |-> 0, pending |-> {}, data |-> <<>>, err |-> "nil",
     resp |-> ErrResp("nil"), expect |-> ErrResp("nil"), solo |-> store, calls |-> 0]

\* the store after one Save on each of the two artifacts (two Saves on the
\* one artifact when they are the same)
Populated(t1, t2) ==
    IF backend = "fs"
    THEN fsService_Save(fsService_Save(EmptyStore, [t1 EXCEPT !.Part = ConcPart(1)]).fs,
                        [t2 EXCEPT !.Part = ConcPart(2)]).fs
    ELSE s3Service_Save(s3Service_Save(EmptyStore, [t1 EXCEPT !.Part = ConcPart(1)]).objs,
                        [t2 EXCEPT !.Part = ConcPart(2)]).objs

\* the callers start on an empty store or on a store with earlier Saves
ConcInit ==
    /\ backend \in Backends
    /\ scope = "wide"
    /\ last = Record("none", NoReq, ErrResp("nil"))
    /\ run = NoRun
    /\ loc = NoLoc
    /\ first = NoFirst
    /\ peer = ErrResp("nil")
    /\ fan = NoFan
    /\ job = NoJob
    /\ \E t \in ConcTargets :
       \E st \in {EmptyStore, Populated(Identity(<<"s">>, <<"f">>), t)} :
           /\ procs = [p \in Procs |->
                          IdleProc(IF p = 1 THEN Identity(<<"s">>, <<"f">>) ELSE t, st)]
           /\ fsDirs = (IF backend = "fs" THEN st.dirs ELSE {rootDir})
           /\ fsFiles = (IF backend = "fs" THEN st.files ELSE << >>)
           /\ s3Objects = (IF backend = "fs" THEN << >> ELSE st)

\* everything but the store and the callers
ConcFrame == UNCHANGED <<backend, scope, last, run, loc, first, peer, fan, job>>

StoreUnchanged == UNCHANGED <<fsDirs, fsFiles, s3Objects>>

\* the store becomes st
StoreBecomes(st) ==
    IF backend = "fs"
    THEN fsDirs' = st.dirs /\ fsFiles' = st.files /\ s3Objects' = s3Objects
    ELSE s3Objects' = st /\ fsDirs' = fsDirs /\ fsFiles' = fsFiles

\* caller p goes on to position pc / returns resp
Goes(p, pc) == [procs EXCEPT ![p].pc = pc]

Done(p, resp) == [procs EXCEPT ![p].pc = "done", ![p].resp = resp]

\* mutant: the location is built for the version after the one decided
ConcLocation_versionAfter(p) ==
    LET req == procs[p].req
    IN  IF backend = "fs"
        THEN fs_buildPath(req.AppName, req.UserID, req.SessionID, req.FileName,
                          procs[p].version + 1)
        ELSE s3_buildKey(req.AppName, req.UserID, req.SessionID, req.FileName,
                         procs[p].version + 1)

\* the path or key the caller's operation works on
ConcLocation(p) ==
    LET req == procs[p].req
    IN  IF backend = "fs"
        THEN fs_buildPath(req.AppName, req.UserID, req.SessionID, req.FileName,
                          procs[p].version)
        ELSE s3_buildKey(req.AppName, req.UserID, req.SessionID, req.FileName,
                         procs[p].version)

\* the first step of an operation, after req.Validate()
FirstStep(op, req) ==
    CASE op = "Save" -> IF backend = "fs" /\ req.Version > 0 THEN "mkdir" ELSE "enumerate"
      [] op = "Load" -> IF req.Version = 0 THEN "enumerate" ELSE "read"
      [] op = "Delete" -> IF backend = "s3" /\ req.Version = 0 THEN "enumerate" ELSE "remove"
      [] OTHER -> "enumerate"

\* a caller issues an operation; solo is the store as the caller's own
\* operations alone, each in one step, would have left it, and expect the
\* response this operation has there
concStart(p, call) ==
    LET alone == Atomic(procs[p].solo, call.op, call.req)
    IN  /\ procs[p].pc = "idle"
        /\ procs[p].calls < ConcCalls
        /\ ValidateId(call.req)
        /\ procs' = [procs EXCEPT ![p].pc = FirstStep(call.op, call.req),
                                  ![p].op = call.op,
                                  ![p].req = call.req,
                                  ![p].version = call.req.Version,
                                  ![p].calls = @ + 1,
                                  ![p].expect = IF DifferentArtifacts THEN alone.resp ELSE @,
                                  ![p].solo = IF DifferentArtifacts THEN alone.store ELSE @]
        /\ StoreUnchanged
        /\ ConcFrame


\* the enumeration of the versions: os.ReadDir in fsService.Versions, the
\* listing of the prefix in s3Service.versions
concEnumerate(p) ==
    LET req == procs[p].req
        response == IF backend = "fs" THEN fsService_Versions(FS, req).resp
                    ELSE s3Service_versions(s3Objects, req).resp
    IN  /\ procs[p].pc = "enumerate"
        /\ procs' =
            CASE procs[p].op = "Save" ->
                   [procs EXCEPT ![p].seen = response.Versions,
                                 ![p].version = IF backend = "fs" THEN fs_nextVersion(FS, req)
                                                ELSE s3_nextVersion(response),
                                 ![p].pc = IF backend = "fs" THEN "mkdir" ELSE "write"]
              [] procs[p].op = "Load" ->
                   IF response.err # "nil" THEN Done(p, ErrResp(response.err))
                   ELSE IF Len(response.Versions) = 0 THEN Done(p, ErrResp("notfound"))
                   ELSE [procs EXCEPT ![p].version = IF backend = "fs"
                                                     THEN MaxOf(response.Versions)
                                                     ELSE s3_latest(response),
                                      ![p].pc = "read"]
              [] procs[p].op = "Delete" ->
                   IF Len(response.Versions) = 0 THEN Done(p, ErrResp("nil"))
                   ELSE [procs EXCEPT ![p].pending = Range(response.Versions),
                                      ![p].pc = "remove"]
              [] OTHER ->
                   IF backend = "s3" /\ Len(response.Versions) = 0
                   THEN Done(p, ErrResp("notfound"))
                   ELSE Done(p, response)
        /\ StoreUnchanged
        /\ ConcFrame

\* os.MkdirAll(filepath.Dir(path)) of fsService.Save
concMkdir(p) ==
    LET md == MkdirAll(FS, PathDir(ConcLocation(p)))
    IN  /\ procs[p].pc = "mkdir"
        /\ StoreBecomes(md.fs)
        /\ procs' = IF md.err # "nil" THEN Done(p, ErrResp("io")) ELSE Goes(p, "write")
        /\ ConcFrame

\* the write of the payload: os.WriteFile(path, data) of fsService.Save,
\* the writer of s3Service.Save (payload and content type in one object)
concWrite(p) ==
    LET part == procs[p].req.Part
        w == WriteFile(FS, ConcLocation(p), GivenData(part))
    IN  /\ procs[p].pc = "write"
        /\ IF backend = "fs"
           THEN /\ StoreBecomes(w.fs)
                /\ procs' = IF w.err # "nil" THEN Done(p, ErrResp("io")) ELSE Goes(p, "meta")
           ELSE /\ StoreBecomes(bucket_Write(s3Objects, ConcLocation(p), GivenData(part),
                                             GivenType(part)))
                /\ procs' = Done(p, Resp("nil", procs[p].version, <<>>, <<>>, <<>>, <<>>))
        /\ ConcFrame

\* the write of the sidecar file of fsService.Save
concWriteMeta(p) ==
    LET r == fs_writeMeta(FS, ConcLocation(p), GivenType(procs[p].req.Part),
                          procs[p].version)
    IN  /\ procs[p].pc = "meta"
        /\ StoreBecomes(r.fs)
        /\ procs' = Done(p, r.resp)
        /\ ConcFrame

\* a removal: os.Remove(path) or os.RemoveAll(dir) of fsService.Delete,
\* bucket.Delete of one key of s3Service.Delete
concRemove(p) ==
    LET req == procs[p].req
    IN  /\ procs[p].pc = "remove"
        /\ \/ /\ backend = "fs" /\ req.Version # 0
              /\ LET r1 == Remove(FS, ConcLocation(p))
                 IN  /\ StoreBecomes(r1.fs)
                     /\ procs' = [procs EXCEPT ![p].err = r1.err, ![p].pc = "removemeta"]
           \/ /\ backend = "fs" /\ req.Version = 0
              /\ StoreBecomes(RemoveAll(FS, fs_buildDir(req.AppName, req.UserID,
                                                         req.SessionID, req.FileName)).fs)
              /\ procs' = Done(p, ErrResp("nil"))
           \/ /\ backend = "s3" /\ req.Version # 0
              /\ StoreBecomes(bucket_Delete(s3Objects, ConcLocation(p)).objs)
              /\ procs' = Done(p, ErrResp("nil"))
           \/ /\ backend = "s3" /\ req.Version = 0
              /\ \E v \in procs[p].pending :
                    /\ StoreBecomes(bucket_Delete(s3Objects,
                                        s3_buildKey(req.AppName, req.UserID, req.SessionID,
                                                    req.FileName, v)).objs)
                    /\ procs' = IF procs[p].pending = {v} THEN Done(p, ErrResp("nil"))
                                ELSE [procs EXCEPT ![p].pending = @ \ {v}]
        /\ ConcFrame

\* os.Remove(path + ".meta") of fsService.Delete, and its result
concRemoveMeta(p) ==
    LET r2 == Remove(FS, ConcLocation(p) \o metaSuffix)
    IN  /\ procs[p].pc = "removemeta"
        /\ StoreBecomes(r2.fs)
        /\ procs' = IF procs[p].err # "nil" /\ procs[p].err # "notexist"
                    THEN Done(p, ErrResp("io")) ELSE Done(p, ErrResp("nil"))
        /\ ConcFrame

\* the read of the payload: os.ReadFile(path) of fsService.Load, the reader
\* of s3Service.Load (payload and content type of one object)
concRead(p) ==
    LET rf == ReadFile(FS, ConcLocation(p))
        key == ConcLocation(p)
    IN  /\ procs[p].pc = "read"
        /\ procs' =
            IF backend = "fs"
            THEN IF rf.err = "notexist" THEN Done(p, ErrResp("notfound"))
                 ELSE IF rf.err # "nil" THEN Done(p, ErrResp("io"))
                 ELSE [procs EXCEPT ![p].data = rf.data, ![p].pc = "readmeta"]
            ELSE IF key \notin DOMAIN s3Objects THEN Done(p, ErrResp("notfound"))
                 ELSE Done(p, Resp("nil", 0, <<>>, <<>>, s3Objects[key].Data,
                                   s3Objects[key].ContentType))
        /\ StoreUnchanged
        /\ ConcFrame

\* os.ReadFile(path + ".meta") of fsService.Load
concReadMeta(p) ==
    /\ procs[p].pc = "readmeta"
    /\ procs' = Done(p, Resp("nil", 0, <<>>, <<>>, procs[p].data,
                             fs_contentType(FS, ConcLocation(p))))
    /\ StoreUnchanged
    /\ ConcFrame

\* the caller takes the response
concReturn(p) ==
    /\ procs[p].pc = "done"
    /\ procs' = [procs EXCEPT ![p] = [IdleProc(procs[p].target, procs[p].solo) EXCEPT
                                         !.calls = procs[p].calls]]
    /\ StoreUnchanged
    /\ ConcFrame

ConcNext ==
    \/ \E p \in Procs : \E call \in ConcRequests(p) : concStart(p, call)
    \/ \E p \in Procs : concEnumerate(p)
    \/ \E p \in Procs : concMkdir(p)
    \/ \E p \in Procs : concWrite(p)
    \/ \E p \in Procs : concWriteMeta(p)
    \/ \E p \in Procs : concRemove(p)
    \/ \E p \in Procs : concRemoveMeta(p)
    \/ \E p \in Procs : concRead(p)
    \/ \E p \in Procs : concReadMeta(p)
    \/ \E p \in Procs : concReturn(p)

SpecConc == ConcInit /\ [][ConcNext]_vars


CurrentStore == IF backend = "fs" THEN FS ELSE s3Objects

\* caller p has got the response of an operation and not yet taken it
Finished(p, op) == procs[p].pc = "done" /\ procs[p].op = op

\* C14: when the two callers work on different artifacts, a caller's
\* operation returns what it returns with the caller's operations alone,
\* and between the caller's operations its artifact is stored as it is
\* with the caller's operations alone, whatever the other caller does
C14_NoInterference ==
    DifferentArtifacts =>
        \A p \in Procs :
            /\ procs[p].pc = "done" => procs[p].resp = procs[p].expect
            /\ procs[p].pc \in {"done", "idle"} =>
                   OfArtifact(CurrentStore, procs[p].target)
                       = OfArtifact(procs[p].solo, procs[p].target)

C14_Witness ==
    /\ DifferentArtifacts
    /\ procs[2].target.SessionID = <<"u", "s", "e", "r">>
    /\ Finished(1, "Save")
    /\ procs[1].resp.Version = 2
    /\ Finished(2, "Delete")
    /\ procs[2].req.Version = 0
    /\ Stored(procs[1].target) = {1, 2}
    /\ Stored(procs[2].target) = {}

\* C18: when two Saves without explicit version on one artifact have both
\* returned after enumerating the same versions, they have returned the
\* same version number, and that version holds the payload of one of them
C18_SameVersionOnePayload ==
    (/\ ~DifferentArtifacts
     /\ \A p \in Procs : /\ Finished(p, "Save")
                         /\ procs[p].req.Version = 0
                         /\ procs[p].resp.err = "nil"
     /\ procs[1].seen = procs[2].seen) =>
        /\ procs[1].resp.Version = procs[2].resp.Version
        /\ procs[1].resp.Version \in Stored(procs[1].target)
        /\ StoredData(procs[1].target, procs[1].resp.Version)
               \in {GivenData(ConcPart(1)), GivenData(ConcPart(2))}

\* the interleaving of C18: both callers enumerated versions 1 and 2, both
\* returned 3, and version 3 holds the payload of caller 2 alone
C18_Witness ==
    /\ ~DifferentArtifacts
    /\ \A p \in Procs : /\ Finished(p, "Save")
                        /\ procs[p].req.Version = 0
                        /\ procs[p].resp.err = "nil"
                        /\ procs[p].resp.Version = 3
                        /\ Range(procs[p].seen) = {1, 2}
    /\ Stored(procs[1].target) = {1, 2, 3}
    /\ StoredData(procs[1].target, 3) = GivenData(ConcPart(2))
    /\ GivenData(ConcPart(1)) # GivenData(ConcPart(2))


-----------------------------------------------------------------------------
(* s3Service.Delete with version 0, step by step: the versions are listed, *)
(* one goroutine per listed version is started with g.Go, each deletes its *)
(* key, and g.Wait returns when all have returned.  A deletion can fail;   *)
(* the first goroutine to return an error sets the error of the group and  *)
(* cancels the context of the group (errgroup.WithContext).  Another       *)
(* caller may delete single versions of the artifact in the meantime.      *)

\* highest number of versions of the artifact when Delete is called
FanVersions == 3

FanReq == Identity(<<"s">>, <<"f">>)

FanKey(v) == s3_buildKey(FanReq.AppName, FanReq.UserID, FanReq.SessionID,
                         FanReq.FileName, v)

RECURSIVE SavedTimes(_)
\* the bucket after n Saves of the artifact
SavedTimes(n) ==
    IF n = 0 THEN << >>
    ELSE s3Service_Save(SavedTimes(n - 1), [FanReq EXCEPT !.Part = ConcPart(1)]).objs

FanIdle ==
    [phase |-> "idle", listed |-> <<>>, next |-> 1, status |-> << >>,
     failures |-> <<>>, err |-> "nil", cancelled |-> FALSE, resp |-> ErrResp("nil")]

FanInit ==
    /\ backend = "s3"
    /\ scope = "deep"
    /\ fsDirs = {rootDir}
    /\ fsFiles = << >>
    /\ s3Objects \in {SavedTimes(n) : n \in 0..FanVersions}
    /\ last = Record("none", NoReq, ErrResp("nil"))
    /\ run = NoRun
    /\ loc = NoLoc
    /\ first = NoFirst
    /\ peer = ErrResp("nil")
    /\ procs = NoProcs
    /\ fan = FanIdle
    /\ job = NoJob

FanFrame == UNCHANGED <<backend, scope, fsDirs, fsFiles, last, run, loc, first, peer, procs, job>>

\* the deletions that have been started and have not returned
InFlight == {v \in DOMAIN fan.status : fan.status[v] = "running"}

\* mutant: Wait returns once every goroutine has been started
fan_waitOver_allStarted == fan.next > Len(fan.listed)

\* g.Wait(): every goroutine started has returned
fan_waitOver == fan.next > Len(fan.listed) /\ InFlight = {}

\* the error of the group after a goroutine has returned the error err:
\* the first one is kept (errgroup: errOnce)
fan_groupError(err) == IF fan.err = "nil" THEN err ELSE fan.err

\* lines 175..180: the versions are listed
fanStart ==
    LET response == s3Service_versions(s3Objects, FanReq).resp
    IN  /\ fan.phase = "idle"
        /\ ValidateId(FanReq)
        /\ fan' = [fan EXCEPT !.phase = "spawning",
                              !.listed = response.Versions,
                              !.status = [v \in Range(response.Versions) |-> "none"]]
        /\ UNCHANGED s3Objects
        /\ FanFrame

\* lines 185..197: g.Go starts the goroutine of the next listed version
fanSpawn ==
    /\ fan.phase = "spawning"
    /\ fan.next <= Len(fan.listed)
    /\ fan' = [fan EXCEPT !.status[fan.listed[fan.next]] = "running", !.next = @ + 1]
    /\ UNCHANGED s3Objects
    /\ FanFrame

\* line 200: the loop is over and g.Wait() is called
fanWait ==
    /\ fan.phase = "spawning"
    /\ fan.next > Len(fan.listed)
    /\ fan' = [fan EXCEPT !.phase = "waiting"]
    /\ UNCHANGED s3Objects
    /\ FanFrame

\* lines 189..196: bucket.Delete returns no error, or a not-found error,
\* and the goroutine returns nil
fanDeleted(v) ==
    LET d == bucket_Delete(s3Objects, FanKey(v))
    IN  /\ v \in InFlight
        /\ s3Objects' = d.objs
        /\ fan' = [fan EXCEPT !.status[v] = IF d.err = "nil" THEN "ok" ELSE "notfound"]
        /\ FanFrame

\* lines 190..194: bucket.Delete fails, the key stays, and the goroutine
\* returns the error; the context of the group is cancelled
fanFailed(v) ==
    /\ v \in InFlight
    /\ fan' = [fan EXCEPT !.status[v] = "failed",
                          !.failures = Append(@, v),
                          !.err = fan_groupError("io"),
                          !.cancelled = TRUE]
    /\ UNCHANGED s3Objects
    /\ FanFrame

\* lines 190..194: bucket.Delete on the cancelled context gives up with the
\* error of the context, and the goroutine returns it
fanCancelled(v) ==
    /\ v \in InFlight
    /\ fan.cancelled
    /\ fan' = [fan EXCEPT !.status[v] = "cancelled",
                          !.failures = Append(@, v),
                          !.err = fan_groupError("cancelled")]
    /\ UNCHANGED s3Objects
    /\ FanFrame

\* another caller deletes one version of the artifact (Delete with an
\* explicit version) while this Delete is under way
fanOtherDelete(v) ==
    /\ fan.phase \in {"spawning", "waiting"}
    /\ FanKey(v) \in DOMAIN s3Objects
    /\ s3Objects' = s3Service_Delete(s3Objects, WithVersion(FanReq, v)).objs
    /\ UNCHANGED fan
    /\ FanFrame

\* line 200: g.Wait() returns the error of the group, Delete returns it
fanReturn ==
    /\ fan.phase = "waiting"
    /\ fan_waitOver
    /\ fan' = [fan EXCEPT !.phase = "returned", !.resp = ErrResp(fan.err)]
    /\ UNCHANGED s3Objects
    /\ FanFrame

FanNext ==
    \/ fanStart
    \/ fanSpawn
    \/ fanWait
    \/ \E v \in 1..FanVersions : fanDeleted(v)
    \/ \E v \in 1..FanVersions : fanFailed(v)
    \/ \E v \in 1..FanVersions : fanCancelled(v)
    \/ \E v \in 1..FanVersions : fanOtherDelete(v)
    \/ fanReturn

SpecFan == FanInit /\ [][FanNext]_vars


\* the versions of the artifact still in the bucket
FanRemaining == {v \in 1..FanVersions : FanKey(v) \in DOMAIN s3Objects}

FanStatusOf(states) == {v \in DOMAIN fan.status : fan.status[v] \in states}

\* C19: one deletion is started per listed version; Delete returns only
\* when all of them have returned; it returns no error when each deletion
\* ended with success or not-found; otherwise the context of the group was
\* cancelled and Delete returns the error of the deletion that failed
\* first; the versions deleted stay deleted, and the versions that remain
\* are listed versions whose deletion failed or was cancelled
C19_FanOutWaitsFirstError ==
    /\ DOMAIN fan.status = Range(fan.listed)
    /\ fan.phase \in {"waiting", "returned"} => FanStatusOf({"none"}) = {}
    /\ FanStatusOf({"failed"}) # {} => fan.cancelled
    /\ FanStatusOf({"cancelled"}) # {} => FanStatusOf({"failed"}) # {}
    /\ FanStatusOf({"ok", "notfound"}) \cap FanRemaining = {}
    /\ fan.phase = "returned" =>
           /\ InFlight = {}
           /\ (fan.resp.err = "nil") <=> (FanStatusOf({"ok", "notfound"}) = Range(fan.listed))
           /\ fan.failures # <<>> =>
                  /\ fan.status[Head(fan.failures)] = "failed"
                  /\ fan.resp.err = "io"
           /\ FanRemaining \subseteq FanStatusOf({"failed", "cancelled"})

C19_Witness ==
    /\ fan.phase = "returned"
    /\ fan.resp.err = "io"
    /\ Len(fan.listed) = FanVersions
    /\ FanStatusOf({"ok"}) # {}
    /\ FanStatusOf({"cancelled"}) # {}
    /\ FanRemaining = FanStatusOf({"failed", "cancelled"})

\* C20: the number of deletions in flight stays below the number of
\* versions of the largest artifact, as it does under a fixed limit once
\* artifacts have more versions than the limit
C20_FanOutBounded == Cardinality(InFlight) <= FanVersions - 1


-----------------------------------------------------------------------------
(* Failing storage: one caller issues one Save, or one Load on the object  *)
(* store, and each call the operation makes to the file system or to the   *)
(* bucket either succeeds or fails.  job is the operation in progress:     *)
(* its position pc, the version it has decided, the streams it has open,   *)
(* the error it holds, the failures that happened (events) and the store   *)
(* as it was when the operation was called (before).                       *)

\* highest number of versions stored when the operation is called, and
\* highest version a request names
FaultVersions == 2

JobReq == Identity(<<"s">>, <<"f">>)

RECURSIVE FsSavedTimes(_)
\* the file system after n Saves of the artifact
FsSavedTimes(n) ==
    IF n = 0 THEN [dirs |-> {rootDir}, files |-> << >>]
    ELSE fsService_Save(FsSavedTimes(n - 1), [JobReq EXCEPT !.Part = ConcPart(1)]).fs

JobRequests ==
    {[op |-> "Save", req |-> [JobReq EXCEPT !.Version = v, !.Part = part]] :
        v \in 0..FaultVersions, part \in Parts}
    \cup {[op |-> "Load", req |-> [JobReq EXCEPT !.Version = v]] : v \in 0..FaultVersions}

JobIdle ==
    [pc |-> "idle", op |-> "none", req |-> NoReq, version |-> 0, open |-> {},
     err |-> "nil", events |-> {}, data |-> <<>>, mime |-> <<>>,
     resp |-> ErrResp("nil"), before |-> [fs |-> FS, objs |-> s3Objects]]

FaultInit ==
    /\ backend \in Backends
    /\ scope = "deep"
    /\ \E n \in 0..FaultVersions :
          /\ fsDirs = (IF backend = "fs" THEN FsSavedTimes(n).dirs ELSE {rootDir})
          /\ fsFiles = (IF backend = "fs" THEN FsSavedTimes(n).files ELSE << >>)
          /\ s3Objects = (IF backend = "s3" THEN SavedTimes(n) ELSE << >>)
    /\ last = Record("none", NoReq, ErrResp("nil"))
    /\ run = NoRun
    /\ loc = NoLoc
    /\ first = NoFirst
    /\ peer = ErrResp("nil")
    /\ procs = NoProcs
    /\ fan = NoFan
    /\ job = JobIdle

FaultFrame == UNCHANGED <<backend, scope, last, run, loc, first, peer, procs, fan>>

\* the path or key of the version the operation works on
JobLocation == Location(job.req, job.version)

\* the operation returns resp
JobDone(j, resp) == [j EXCEPT !.pc = "done", !.resp = resp]

\* a failure is recorded
JobEvent(j, e) == [j EXCEPT !.events = @ \cup {e}]

\* the first call to the storage an operation makes, after req.Validate()
JobFirstStep(op, req) ==
    IF op = "Save"
    THEN IF backend = "fs" /\ req.Version > 0 THEN "mkdir" ELSE "enumerate"
    ELSE IF req.Version = 0 THEN "enumerate" ELSE "open"

\* the caller issues the operation (Load on the object store only)
jobStart(c) ==
    /\ job.pc = "idle"
    /\ c.op = "Load" => backend = "s3"
    /\ job' = [job EXCEPT !.pc = JobFirstStep(c.op, c.req), !.op = c.op, !.req = c.req,
                          !.version = c.req.Version]
    /\ StoreUnchanged
    /\ FaultFrame

\* lines 98..100 of fsService.Save: the version after the response of
\* Versions, whose error is not looked at
fs_nextVersionAfter(response) ==
    IF response.err = "nil" /\ Len(response.Versions) > 0
    THEN MaxOf(response.Versions) + 1
    ELSE 1

\* the enumeration of the versions, which fails when ok is FALSE: os.ReadDir
\* in fsService.Versions (an error other than not-exist), iter.Next in
\* s3Service.versions
jobEnumerate(ok) ==
    LET listed == IF backend = "fs" THEN fsService_Versions(FS, job.req).resp
                  ELSE s3Service_versions(s3Objects, job.req).resp
        response == IF ok THEN listed ELSE ErrResp("io")
        j == IF ok THEN job ELSE JobEvent(job, "enumfail")
    IN  /\ job.pc = "enumerate"
        /\ job' =
            IF backend = "fs"
            THEN [j EXCEPT !.version = fs_nextVersionAfter(response), !.pc = "mkdir"]
            ELSE IF response.err # "nil" THEN JobDone(j, ErrResp("io"))
            ELSE IF job.op = "Save"
            THEN [j EXCEPT !.version = s3_nextVersion(response), !.pc = "open"]
            ELSE IF Len(response.Versions) = 0 THEN JobDone(j, ErrResp("notfound"))
            ELSE [j EXCEPT !.version = s3_latest(response), !.pc = "open"]
        /\ StoreUnchanged
        /\ FaultFrame

\* os.MkdirAll(filepath.Dir(path)) of fsService.Save
jobMkdir(ok) ==
    LET md == MkdirAll(FS, PathDir(JobLocation))
    IN  /\ job.pc = "mkdir"
        /\ IF ok /\ md.err = "nil"
           THEN StoreBecomes(md.fs) /\ job' = [job EXCEPT !.pc = "write"]
           ELSE StoreUnchanged /\ job' = JobDone(JobEvent(job, "mkdirfail"), ErrResp("io"))
        /\ FaultFrame

\* bucket.NewWriter of s3Service.Save, bucket.NewReader of s3Service.Load:
\* the stream is open when the call succeeds
jobOpen(ok) ==
    /\ job.pc = "open"
    /\ job' =
        IF ~ok THEN JobDone(JobEvent(job, "openfail"), ErrResp("io"))
        ELSE IF job.op = "Save"
        THEN [job EXCEPT !.open = @ \cup {"writer"}, !.pc = "write"]
        ELSE IF JobLocation \notin DOMAIN s3Objects THEN JobDone(job, ErrResp("notfound"))
        ELSE [job EXCEPT !.open = @ \cup {"reader"}, !.pc = "read"]
    /\ StoreUnchanged
    /\ FaultFrame

\* mutant: the function returns after the failed Write and leaves the writer
s3_writeFailed_noClose(j) == JobDone(JobEvent(j, "writefail"), ErrResp("io"))

\* lines 127..130 and 140..143 of s3Service.Save: Write has failed, the
\* writer is closed before the error is returned
s3_writeFailed(j) == [JobEvent(j, "writefail") EXCEPT !.err = "io", !.pc = "close"]

\* the write of the payload.  os.WriteFile(path, data) of fsService.Save
\* opens the file with O_CREATE and O_TRUNC and then writes: it succeeds,
\* fails before the file is opened ("fail"), or fails after the file was
\* created or truncated ("truncated").  w.Write of s3Service.Save succeeds
\* or fails.
jobWrite(outcome) ==
    LET data == GivenData(job.req.Part)
    IN  /\ job.pc = "write"
        /\ IF backend = "fs"
           THEN CASE outcome = "ok" ->
                       /\ StoreBecomes(WriteFile(FS, JobLocation, data).fs)
                       /\ job' = [job EXCEPT !.pc = "meta"]
                  [] outcome = "fail" ->
                       /\ StoreUnchanged
                       /\ job' = JobDone(JobEvent(job, "writefail"), ErrResp("io"))
                  [] OTHER ->
                       /\ StoreBecomes(WriteFile(FS, JobLocation, <<>>).fs)
                       /\ job' = JobDone(JobEvent(job, "writefail"), ErrResp("io"))
           ELSE /\ outcome \in {"ok", "fail"}
                /\ StoreUnchanged
                /\ job' = IF outcome = "ok" THEN [job EXCEPT !.pc = "close"]
                          ELSE s3_writeFailed(job)
        /\ FaultFrame

\* mutant: the payload file is left where it is
fs_cleanup_none(fs, path, ok) == fs

\* line 127 of fsService.Save: os.Remove(path), whose result is not looked at
fs_cleanup(fs, path, ok) == IF ok THEN Remove(fs, path).fs ELSE fs

\* lines 124..125 of fsService.Save: the write of the sidecar file, with the
\* outcomes of os.WriteFile
jobWriteMeta(outcome) ==
    LET metaPath == JobLocation \o metaSuffix
        contentType == GivenType(job.req.Part)
    IN  /\ job.pc = "meta"
        /\ CASE outcome = "ok" ->
                  /\ StoreBecomes(WriteFile(FS, metaPath, contentType).fs)
                  /\ job' = JobDone(job, Resp("nil", job.version, <<>>, <<>>, <<>>, <<>>))
             [] outcome = "fail" ->
                  /\ StoreUnchanged
                  /\ job' = [JobEvent(job, "metafail") EXCEPT !.pc = "cleanup"]
             [] OTHER ->
                  /\ StoreBecomes(WriteFile(FS, metaPath, <<>>).fs)
                  /\ job' = [JobEvent(job, "metafail") EXCEPT !.pc = "cleanup"]
        /\ FaultFrame

\* lines 126..128 of fsService.Save: the removal of the payload file, which
\* succeeds or fails, and the return of the error
jobCleanup(ok) ==
    /\ job.pc = "cleanup"
    /\ StoreBecomes(fs_cleanup(FS, JobLocation, ok))
    /\ job' = JobDone(JobEvent(job, IF ok THEN "removed" ELSE "removefail"), ErrResp("io"))
    /\ FaultFrame

\* io.ReadAll(reader) of s3Service.Load
jobRead(ok) ==
    /\ job.pc = "read"
    /\ job' = IF ok
              THEN [job EXCEPT !.data = s3Objects[JobLocation].Data,
                               !.mime = s3Objects[JobLocation].ContentType,
                               !.pc = "close"]
              ELSE [JobEvent(job, "readfail") EXCEPT !.err = "io", !.pc = "close"]
    /\ StoreUnchanged
    /\ FaultFrame

\* lines 234..238 of s3Service.Load: the error Load returns after the
\* deferred reader.Close()
s3_loadError(err, closed) == IF ~closed /\ err = "nil" THEN "close" ELSE err

\* the stream is closed, and the operation returns.  In s3Service.Save,
\* w.Close() after a failed Write does not change the error; after a
\* successful Write a failing Close is returned, and the object is then
\* stored or not (landed).  In s3Service.Load the deferred reader.Close()
\* runs after the return values are set.
jobClose(ok, landed) ==
    LET part == job.req.Part
        written == bucket_Write(s3Objects, JobLocation, GivenData(part), GivenType(part))
        loadErr == s3_loadError(job.err, ok)
    IN  /\ job.pc = "close"
        /\ IF job.op = "Save"
           THEN /\ IF job.err # "nil" THEN ~landed ELSE ok => landed
                /\ StoreBecomes(IF landed THEN written ELSE s3Objects)
                /\ job' = [JobDone(IF ok THEN job ELSE JobEvent(job, "closefail"),
                                   IF job.err # "nil" \/ ~ok THEN ErrResp("io")
                                   ELSE Resp("nil", job.version, <<>>, <<>>, <<>>, <<>>))
                              EXCEPT !.open = @ \ {"writer"}]
           ELSE /\ landed
                /\ StoreUnchanged
                /\ job' = [JobDone(IF ok THEN job ELSE JobEvent(job, "closefail"),
                                   IF loadErr # "nil" THEN ErrResp(loadErr)
                                   ELSE Resp("nil", 0, <<>>, <<>>, job.data, job.mime))
                              EXCEPT !.open = @ \ {"reader"}]
        /\ FaultFrame

FaultNext ==
    \/ \E c \in JobRequests : jobStart(c)
    \/ \E ok \in BOOLEAN : jobEnumerate(ok)
    \/ \E ok \in BOOLEAN : jobMkdir(ok)
    \/ \E ok \in BOOLEAN : jobOpen(ok)
    \/ \E outcome \in {"ok", "fail", "truncated"} : jobWrite(outcome)
    \/ \E outcome \in {"ok", "fail", "truncated"} : jobWriteMeta(outcome)
    \/ \E ok \in BOOLEAN : jobCleanup(ok)
    \/ \E ok \in BOOLEAN : jobRead(ok)
    \/ \E ok, landed \in BOOLEAN : jobClose(ok, landed)

SpecFault == FaultInit /\ [][FaultNext]_vars


\* the store when the operation was called, and what it held of the artifact
StoredBefore == StoredIn(job.before.fs, job.before.objs, job.req)

\* the Save has returned
SaveReturned == job.pc = "done" /\ job.op = "Save"

\* C21: in the filesystem backend, a Save whose payload file was written and
\* whose sidecar write failed has returned an error and has tried to remove
\* the payload file; when the removal succeeded, there is no payload file
\* for the version of this Save
C21_SidecarFailureRemovesPayload ==
    (SaveReturned /\ backend = "fs" /\ "metafail" \in job.events) =>
        /\ job.resp.err # "nil"
        /\ "removed" \in job.events \/ "removefail" \in job.events
        /\ "removed" \in job.events => ~IsFile(FS, JobLocation)

\* a Save without explicit version on an artifact with versions 1 and 2:
\* the payload of version 3 was written, the sidecar write failed, the
\* payload was removed again
C21_Witness ==
    /\ SaveReturned
    /\ backend = "fs"
    /\ job.req.Version = 0
    /\ job.version = 3
    /\ job.events = {"metafail", "removed"}
    /\ job.resp.err = "io"
    /\ StoredBefore = {1, 2}
    /\ Stored(job.req) = {1, 2}

\* C22: a Save without explicit version whose enumeration of the versions
\* failed has returned an error and has left the store as it was
C22_EnumerationFailureSurfaced ==
    (SaveReturned /\ job.req.Version = 0 /\ "enumfail" \in job.events) =>
        /\ job.resp.err # "nil"
        /\ FS = job.before.fs
        /\ s3Objects = job.before.objs

\* C23: in the object-store backend, an operation that has returned has no
\* stream open, and a Load whose reader failed to close has returned the
\* close error when the read succeeded and the read error when it failed
C23_StreamsClosed ==
    (backend = "s3" /\ job.pc = "done") =>
        /\ job.open = {}
        /\ (job.op = "Load" /\ "closefail" \in job.events) =>
               job.resp.err = (IF "readfail" \in job.events THEN "io" ELSE "close")
        /\ (job.op = "Load" /\ job.resp.err = "close") =>
               "closefail" \in job.events /\ "readfail" \notin job.events

\* a Save whose Write failed: the writer was opened and is closed
C23_Witness ==
    /\ backend = "s3"
    /\ SaveReturned
    /\ "writefail" \in job.events
    /\ job.resp.err = "io"
    /\ job.open = {}

\* a Load whose read succeeded and whose reader failed to close
C23_WitnessLoad ==
    /\ backend = "s3"
    /\ job.pc = "done"
    /\ job.op = "Load"
    /\ job.events = {"closefail"}
    /\ job.resp.err = "close"
    /\ job.open = {}

\* C24: after a Save that returned an error, every version that was stored
\* when the Save was called is stored and loads as it did then
C24_FailedSaveChangesNothing ==
    (SaveReturned /\ job.resp.err # "nil") =>
        \A v \in StoredBefore :
            /\ v \in Stored(job.req)
            /\ LoadIn(FS, s3Objects, WithVersion(job.req, v))
                   = LoadIn(job.before.fs, job.before.objs, WithVersion(job.req, v))


-----------------------------------------------------------------------------
\* C25: in the filesystem backend, a Load of caller 1 that succeeded while
\* caller 2 saves to the same artifact has returned the payload of a Save
\* together with the content type given to that Save
C25_SaveAtomicForReaders ==
    (/\ backend = "fs"
     /\ ~DifferentArtifacts
     /\ Finished(1, "Load")
     /\ procs[1].resp.err = "nil"
     /\ procs[2].op = "Save") =>
        <<procs[1].resp.Data, procs[1].resp.MIMEType>>
            \in {<<GivenData(ConcPart(q)), GivenType(ConcPart(q))>> : q \in Procs}

=============================================================================
